---- MODULE Spec2Model ----
(***************************************************************************)
(* State-machine model of the oscilloscope trainer in src/main.js: the     *)
(* instrument state (oscState), the probe grab/connect state, the tutorial *)
(* step index, the feedback toast, the frozen frame buffer and the three   *)
(* input handlers (desktop click, XR select, frame callback animate).      *)
(*                                                                         *)
(* Units.  Lengths are integers in thousandths of a scene unit in the      *)
(* local space of oscGroup (0.52 -> 520).  Times are integers in seconds   *)
(* (toastTimer = 2.0 -> 2).  TIMEBASE_VALUES / VDIV_VALUES are in tenths   *)
(* (0.1 ms/div -> 1).  wavePhase is in radians (dt * 4.0).                 *)
(*                                                                         *)
(* Purely visual writes (material colours, mesh visibility, cursor style,  *)
(* knob rotation, highlight ring, canvases) are not state of the model.    *)
(***************************************************************************)
EXTENDS Integers, Sequences, FiniteSets, TLC

\* ------------------------------------------------------------------------
\*  Bounds of the model (not program constants)
\* ------------------------------------------------------------------------
\* frame deltas offered to animate: 1..MaxDt seconds
MaxDt == 1
\* animate is not offered a frame that would carry wavePhase past MaxPhase
\* (frames that leave wavePhase alone are always offered)
MaxPhase == 4
\* a rotary knob is offered only while the three indices are, in total, fewer
\* than MaxTurns clicks past their defaults (AUTO resets them)
MaxTurns == 1
\* directions passed as extra.dir in a direct call of handleControl:
\* -MaxDir .. MaxDir (beyond the longest table's length)
MaxDir == 9

\* ------------------------------------------------------------------------
\*  Program constants
\* ------------------------------------------------------------------------
TIMEBASE_VALUES == <<1, 2, 5, 10, 20, 50, 100, 200>>
VDIV_VALUES     == <<1, 2, 5, 10, 20, 50>>
TRIGGER_VALUES  == <<-3, -2, -1, 0, 1, 2, 3>>

STEPS == <<
  [id |-> 0, highlight |-> "power"],
  [id |-> 1, highlight |-> "ch1"],
  [id |-> 2, highlight |-> "wave"],
  [id |-> 3, highlight |-> "timebase"],
  [id |-> 4, highlight |-> "vdiv"],
  [id |-> 5, highlight |-> "trigger"],
  [id |-> 6, highlight |-> "runstop"],
  [id |-> 7, highlight |-> ""] >>

\* oscGroup.scale, in hundredths
OSC_SCALE == 72
\* body width / height / depth
BW == 520
BH == 480
BD == 400
\* showToast: toastTimer = 2.0
TOAST_TIME == 2
\* XR hover tooltip: toastTimer = 1.0
HOVER_TOAST_TIME == 1
\* wavePhase += dt * 4.0
PHASE_RATE == 4
\* auto-snap radius 0.072 world units, in hundred-thousandths (so that
\* OSC_SCALE * local distance compares against it)
SNAP_RADIUS == 7200
\* oscState initial / AUTO index
DEFAULT_IDX == 3

\* cablePts[20] + (0, 0, 0.018): x = -0.20 + 0.05, y = -BH/2 - 0.005 +
\* sin(3 pi) * 0.012, z = BD/2 + 0.01 + 0.22 + 0.018
PROBE_REST == <<-150, -((BH \div 2) + 5), (BD \div 2) + 10 + 220 + 18>>
\* grabbableProbe.position.set(-0.16, -0.13, BD / 2 + 0.010)
CH1_SNAP_POS == <<-160, -130, (BD \div 2) + 10>>
\* ch1Body.position.set(-0.16, -0.13, BD / 2 + 0.009)
CH1_BODY_POS == <<-160, -130, (BD \div 2) + 9>>

\* null (no interactive hit / nothing hovered)
NoHit == [ctrlType |-> "", label |-> ""]

\* the control registry, in registration order
Interactives == {
  [ctrlType |-> "power",      label |-> "POWER"],
  [ctrlType |-> "runstop",    label |-> "RUN/STOP"],
  [ctrlType |-> "auto",       label |-> "AUTO"],
  [ctrlType |-> "wave",       label |-> "WAVE:sine",     waveform |-> "sine"],
  [ctrlType |-> "wave",       label |-> "WAVE:square",   waveform |-> "square"],
  [ctrlType |-> "wave",       label |-> "WAVE:triangle", waveform |-> "triangle"],
  [ctrlType |-> "timebase",   label |-> "TIMEBASE"],
  [ctrlType |-> "vdiv",       label |-> "V/DIV"],
  [ctrlType |-> "trigger",    label |-> "TRIGGER"],
  [ctrlType |-> "ch1",        label |-> "CH1 INPUT"],
  [ctrlType |-> "probe_body", label |-> "PROBE - click to grab"] }

\* results of fireRayOnMeshes: a registered interactive or null
RayHits == Interactives \cup {NoHit}

\* ------------------------------------------------------------------------
\*  State
\* ------------------------------------------------------------------------
VARIABLES
  power, probeConnected, waveform, timebaseIdx, vdivIdx, triggerIdx,
  isRunning, currentStep,     \* oscState
  probeGrabbed,               \* let probeGrabbed
  probePos,                   \* grabbableProbe.position
  frozenImageData,            \* <<>> is null, <<frame>> a captured frame
  toastText, toastVisible,    \* toast canvas text, toastMesh.visible
  toastTimer,                 \* let toastTimer
  hoveredCtrl,                \* let hoveredCtrl
  wavePhase,                  \* let wavePhase
  isPresenting,               \* renderer.xr.isPresenting
  opProgress,                 \* history: see ObserveOps
  lastOp,                     \* history: see ObserveLast
  scen,                       \* history: see ScenarioStep
  turns,                      \* history: see ObserveTurns
  freeze,                     \* history: see ObserveFreeze
  idle,                       \* history: see ObserveIdle
  toggle                      \* history: see ObserveToggle

oscVars   == <<power, probeConnected, waveform, timebaseIdx, vdivIdx,
               triggerIdx, isRunning, currentStep>>
probeVars == <<probeGrabbed, probePos>>
toastVars == <<toastText, toastVisible, toastTimer>>
progVars  == <<oscVars, probeVars, toastVars, frozenImageData, hoveredCtrl,
               wavePhase, isPresenting>>
histVars  == <<opProgress, lastOp, scen>>
\* the histories only some specifications keep
obsVars   == <<turns, freeze, idle, toggle>>
vars      == <<progVars, histVars, obsVars>>

\* a toast text: the fixed part of the message and the value printed in it
Msg(m, v) == [msg |-> m, val |-> v]

\* ------------------------------------------------------------------------
\*  Helpers
\* ------------------------------------------------------------------------
\* showToast(text): draw the text, show the mesh, restart the timer
ShowToast(text) ==
  /\ toastText' = text
  /\ toastVisible' = TRUE
  /\ toastTimer' = TOAST_TIME

\* mutant of AdvanceStep: the guard currentStep < STEPS.length - 1 is missing
AdvanceStep_NoBound(ctrlType) ==
  LET cur == STEPS[currentStep + 1] IN
  IF cur.highlight = ctrlType \/ currentStep = 7
  THEN currentStep + 1
  ELSE currentStep

\* mutant of AdvanceStep: the kind is compared with the next step's control
AdvanceStep_OffByOne(ctrlType) ==
  IF currentStep < Len(STEPS) - 1
        /\ STEPS[currentStep + 2].highlight = ctrlType
  THEN currentStep + 1
  ELSE currentStep

\* mutant of AdvanceStep: the terminal clause reads currentStep !== 7, so
\* any control advances the tutorial
AdvanceStep_AnyKind(ctrlType) ==
  LET cur == STEPS[currentStep + 1] IN
  IF (cur.highlight = ctrlType \/ currentStep # 7)
        /\ currentStep < Len(STEPS) - 1
  THEN currentStep + 1
  ELSE currentStep

\* advanceStep(ctrlType): the value of oscState.currentStep afterwards
AdvanceStep(ctrlType) ==
  LET cur == STEPS[currentStep + 1] IN
  IF (cur.highlight = ctrlType \/ currentStep = 7)
        /\ currentStep < Len(STEPS) - 1
  THEN currentStep + 1
  ELSE currentStep

\* mutant of SnapProbeToCH1: probeGrabbed is not cleared
SnapProbeToCH1_KeepGrab ==
  /\ UNCHANGED probeGrabbed
  /\ probeConnected' = TRUE
  /\ probePos' = CH1_SNAP_POS
  /\ ShowToast(Msg("Probe connected - CH1", 0))
  /\ currentStep' = AdvanceStep("ch1")

\* mutant of SnapProbeToCH1: the call of advanceStep("ch1") is missing
SnapProbeToCH1_NoAdvance ==
  /\ probeGrabbed' = FALSE
  /\ probeConnected' = TRUE
  /\ probePos' = CH1_SNAP_POS
  /\ ShowToast(Msg("Probe connected - CH1", 0))
  /\ UNCHANGED currentStep

\* snapProbeToCH1()
SnapProbeToCH1 ==
  /\ probeGrabbed' = FALSE
  /\ probeConnected' = TRUE
  /\ probePos' = CH1_SNAP_POS
  /\ ShowToast(Msg("Probe connected - CH1", 0))
  /\ currentStep' = AdvanceStep("ch1")

\* mutant of UnplugProbe: the probe is not moved back to PROBE_REST
UnplugProbe_NoReset ==
  /\ probeConnected' = FALSE
  /\ probeGrabbed' = FALSE
  /\ UNCHANGED probePos
  /\ ShowToast(Msg("Probe disconnected", 0))

\* unplugProbe()
UnplugProbe ==
  /\ probeConnected' = FALSE
  /\ probeGrabbed' = FALSE
  /\ probePos' = PROBE_REST
  /\ ShowToast(Msg("Probe disconnected", 0))

\* THREE.MathUtils.clamp
Clamp(v, lo, hi) == IF v < lo THEN lo ELSE IF v > hi THEN hi ELSE v

\* extra.dir ?? 1
Dir(extra) == IF "dir" \in DOMAIN extra THEN extra.dir ELSE 1

\* (idx + dir + length) % length with JavaScript's truncating remainder
JsMod(a, n) == IF a >= 0 THEN a % n ELSE -((-a) % n)

Capitalize(wf) ==
  CASE wf = "sine"     -> "Sine"
    [] wf = "square"   -> "Square"
    [] wf = "triangle" -> "Triangle"
    [] OTHER           -> wf

\* idx is a valid index of the JavaScript array table
InTable(table, idx) == idx \in 0 .. Len(table) - 1

\* the toast of a rotary control: the table value now selected; an index
\* outside the array reads undefined, which the template prints as such
TimebaseMsg(idx) ==
  IF InTable(TIMEBASE_VALUES, idx)
  THEN Msg("Timebase: ms/div", TIMEBASE_VALUES[idx + 1])
  ELSE Msg("Timebase: undefined ms/div", 0)
VdivMsg(idx) ==
  IF InTable(VDIV_VALUES, idx)
  THEN Msg("V/DIV: V", VDIV_VALUES[idx + 1])
  ELSE Msg("V/DIV: undefined V", 0)
TriggerMsg(idx) ==
  IF InTable(TRIGGER_VALUES, idx)
  THEN Msg("Trigger: div", TRIGGER_VALUES[idx + 1])
  ELSE Msg("Trigger: undefined div", 0)

\* ------------------------------------------------------------------------
\*  Control dispatcher
\* ------------------------------------------------------------------------
\* mutant of HandlePower: switching the power drops the captured frame
HandlePower_ClearsFrozen ==
  /\ power' = ~power
  /\ frozenImageData' = <<>>
  /\ ShowToast(Msg(IF ~power THEN "Power ON" ELSE "Power OFF", 0))
  /\ currentStep' = AdvanceStep("power")
  /\ UNCHANGED <<probeConnected, waveform, timebaseIdx, vdivIdx, triggerIdx,
                 isRunning, probeVars>>

\* case "power"
HandlePower ==
  /\ power' = ~power
  /\ ShowToast(Msg(IF ~power THEN "Power ON" ELSE "Power OFF", 0))
  /\ currentStep' = AdvanceStep("power")
  /\ UNCHANGED <<probeConnected, waveform, timebaseIdx, vdivIdx, triggerIdx,
                 isRunning, probeVars, frozenImageData>>

\* mutant of HandleProbeBody: the probe cannot be put back, activating it
\* in the hand keeps it there
HandleProbeBody_StickyGrab ==
  /\ IF probeConnected
     THEN UnplugProbe
     ELSE /\ probeGrabbed' = TRUE
          /\ UNCHANGED <<probeConnected, probePos>>
          /\ ShowToast(Msg("Probe grabbed - move to the CH1 port", 0))
  /\ UNCHANGED <<power, waveform, timebaseIdx, vdivIdx, triggerIdx,
                 isRunning, currentStep, frozenImageData>>

\* mutant of HandleProbeBody: the probeConnected test is missing, the
\* control always toggles the grab
HandleProbeBody_NoUnplug ==
  /\ probeGrabbed' = ~probeGrabbed
  /\ UNCHANGED probeConnected
  /\ IF ~probeGrabbed
     THEN /\ ShowToast(Msg("Probe grabbed - move to the CH1 port", 0))
          /\ UNCHANGED probePos
     ELSE /\ probePos' = PROBE_REST
          /\ ShowToast(Msg("Probe released", 0))
  /\ UNCHANGED <<power, waveform, timebaseIdx, vdivIdx, triggerIdx,
                 isRunning, currentStep, frozenImageData>>

\* case "probe_body"
HandleProbeBody ==
  /\ IF probeConnected
     THEN UnplugProbe
     ELSE /\ probeGrabbed' = ~probeGrabbed
          /\ UNCHANGED probeConnected
          /\ IF ~probeGrabbed
             THEN /\ ShowToast(Msg("Probe grabbed - move to the CH1 port", 0))
                  /\ UNCHANGED probePos
             ELSE /\ probePos' = PROBE_REST
                  /\ ShowToast(Msg("Probe released", 0))
  /\ UNCHANGED <<power, waveform, timebaseIdx, vdivIdx, triggerIdx,
                 isRunning, currentStep, frozenImageData>>

\* mutant of HandleCh1: the port plugs the probe in whether or not it is
\* grabbed
HandleCh1_PlugAtRest ==
  /\ IF probeConnected
     THEN UnplugProbe /\ UNCHANGED currentStep
     ELSE SnapProbeToCH1
  /\ UNCHANGED <<power, waveform, timebaseIdx, vdivIdx, triggerIdx,
                 isRunning, frozenImageData>>

\* case "ch1"
HandleCh1 ==
  /\ IF probeConnected
     THEN UnplugProbe /\ UNCHANGED currentStep
     ELSE IF probeGrabbed
     THEN SnapProbeToCH1
     ELSE /\ ShowToast(Msg("Grab the probe first, then insert into CH1", 0))
          /\ UNCHANGED <<probeConnected, probeVars, currentStep>>
  /\ UNCHANGED <<power, waveform, timebaseIdx, vdivIdx, triggerIdx,
                 isRunning, frozenImageData>>

\* case "wave"
HandleWave(extra) ==
  /\ waveform' = extra.waveform
  /\ ShowToast(Msg("Waveform: " \o Capitalize(extra.waveform), 0))
  /\ currentStep' = AdvanceStep("wave")
  /\ UNCHANGED <<power, probeConnected, timebaseIdx, vdivIdx, triggerIdx,
                 isRunning, probeVars, frozenImageData>>

\* mutant of HandleTimebase: the index is clamped at the end of the table
\* instead of wrapped
HandleTimebase_Clamp(extra) ==
  /\ timebaseIdx' = Clamp(timebaseIdx + Dir(extra), 0, Len(TIMEBASE_VALUES) - 1)
  /\ ShowToast(TimebaseMsg(timebaseIdx'))
  /\ currentStep' = AdvanceStep("timebase")
  /\ UNCHANGED <<power, probeConnected, waveform, vdivIdx, triggerIdx,
                 isRunning, probeVars, frozenImageData>>

\* mutant of HandleTimebase: the knob is dead while the power is off
HandleTimebase_PowerGated(extra) ==
  IF power
  THEN /\ timebaseIdx' = JsMod(timebaseIdx + Dir(extra) + Len(TIMEBASE_VALUES),
                               Len(TIMEBASE_VALUES))
       /\ ShowToast(TimebaseMsg(timebaseIdx'))
       /\ currentStep' = AdvanceStep("timebase")
       /\ UNCHANGED <<power, probeConnected, waveform, vdivIdx, triggerIdx,
                      isRunning, probeVars, frozenImageData>>
  ELSE /\ ShowToast(Msg("Turn on power first", 0))
       /\ UNCHANGED <<oscVars, probeVars, frozenImageData>>

\* case "timebase"
HandleTimebase(extra) ==
  /\ timebaseIdx' = JsMod(timebaseIdx + Dir(extra) + Len(TIMEBASE_VALUES),
                          Len(TIMEBASE_VALUES))
  /\ ShowToast(TimebaseMsg(timebaseIdx'))
  /\ currentStep' = AdvanceStep("timebase")
  /\ UNCHANGED <<power, probeConnected, waveform, vdivIdx, triggerIdx,
                 isRunning, probeVars, frozenImageData>>

\* case "vdiv"
HandleVdiv(extra) ==
  /\ vdivIdx' = JsMod(vdivIdx + Dir(extra) + Len(VDIV_VALUES),
                      Len(VDIV_VALUES))
  /\ ShowToast(VdivMsg(vdivIdx'))
  /\ currentStep' = AdvanceStep("vdiv")
  /\ UNCHANGED <<power, probeConnected, waveform, timebaseIdx, triggerIdx,
                 isRunning, probeVars, frozenImageData>>

\* mutant of HandleTrigger: the wrap uses VDIV_VALUES.length
HandleTrigger_WrongLength(extra) ==
  /\ triggerIdx' = JsMod(triggerIdx + Dir(extra) + Len(VDIV_VALUES),
                         Len(VDIV_VALUES))
  /\ ShowToast(TriggerMsg(triggerIdx'))
  /\ currentStep' = AdvanceStep("trigger")
  /\ UNCHANGED <<power, probeConnected, waveform, timebaseIdx, vdivIdx,
                 isRunning, probeVars, frozenImageData>>

\* case "trigger"
HandleTrigger(extra) ==
  /\ triggerIdx' = JsMod(triggerIdx + Dir(extra) + Len(TRIGGER_VALUES),
                         Len(TRIGGER_VALUES))
  /\ ShowToast(TriggerMsg(triggerIdx'))
  /\ currentStep' = AdvanceStep("trigger")
  /\ UNCHANGED <<power, probeConnected, waveform, timebaseIdx, vdivIdx,
                 isRunning, probeVars, frozenImageData>>

\* mutant of HandleRunStop: the frozen frame is not discarded on the
\* transition to running
HandleRunStop_KeepFrozen ==
  /\ isRunning' = ~isRunning
  /\ UNCHANGED frozenImageData
  /\ ShowToast(Msg(IF ~isRunning THEN "Running..."
                                 ELSE "STOPPED - waveform frozen", 0))
  /\ currentStep' = AdvanceStep("runstop")
  /\ UNCHANGED <<power, probeConnected, waveform, timebaseIdx, vdivIdx,
                 triggerIdx, probeVars>>

\* case "runstop"
HandleRunStop ==
  /\ isRunning' = ~isRunning
  /\ frozenImageData' = IF ~isRunning THEN <<>> ELSE frozenImageData
  /\ ShowToast(Msg(IF ~isRunning THEN "Running..."
                                 ELSE "STOPPED - waveform frozen", 0))
  /\ currentStep' = AdvanceStep("runstop")
  /\ UNCHANGED <<power, probeConnected, waveform, timebaseIdx, vdivIdx,
                 triggerIdx, probeVars>>

\* mutant of HandleAuto: isRunning is forced but the frozen frame is kept
HandleAuto_KeepFrozen ==
  /\ timebaseIdx' = DEFAULT_IDX
  /\ vdivIdx' = DEFAULT_IDX
  /\ triggerIdx' = DEFAULT_IDX
  /\ isRunning' = TRUE
  /\ UNCHANGED frozenImageData
  /\ ShowToast(Msg("AUTO - settings reset to defaults", 0))
  /\ UNCHANGED <<power, probeConnected, waveform, currentStep, probeVars>>

\* case "auto"
HandleAuto ==
  /\ timebaseIdx' = DEFAULT_IDX
  /\ vdivIdx' = DEFAULT_IDX
  /\ triggerIdx' = DEFAULT_IDX
  /\ isRunning' = TRUE
  /\ frozenImageData' = <<>>
  /\ ShowToast(Msg("AUTO - settings reset to defaults", 0))
  /\ UNCHANGED <<power, probeConnected, waveform, currentStep, probeVars>>

\* handleControl(ctrlType, extra)
HandleControl(ctrlType, extra) ==
  /\ UNCHANGED <<hoveredCtrl, wavePhase, isPresenting>>
  /\ CASE ctrlType = "power"      -> HandlePower
       [] ctrlType = "probe_body" -> HandleProbeBody
       [] ctrlType = "ch1"        -> HandleCh1
       [] ctrlType = "wave"       -> HandleWave(extra)
       [] ctrlType = "timebase"   -> HandleTimebase(extra)
       [] ctrlType = "vdiv"       -> HandleVdiv(extra)
       [] ctrlType = "trigger"    -> HandleTrigger(extra)
       [] ctrlType = "runstop"    -> HandleRunStop
       [] ctrlType = "auto"       -> HandleAuto
       [] OTHER -> UNCHANGED <<oscVars, probeVars, toastVars, frozenImageData>>

\* ------------------------------------------------------------------------
\*  Screen drawing: the frozen frame buffer
\* ------------------------------------------------------------------------
\* what the live branch of drawScreen draws: a function of the phase and of
\* the settings (frequency and amplitude are fixed)
Frame(phase) ==
  [phase    |-> phase,
   waveform |-> waveform,
   timebase |-> TIMEBASE_VALUES[timebaseIdx + 1],
   vdiv     |-> VDIV_VALUES[vdivIdx + 1],
   trigger  |-> TRIGGER_VALUES[triggerIdx + 1]]

\* drawScreen(phase): the value of frozenImageData afterwards
DrawScreen(phase) ==
  IF ~power THEN frozenImageData
  ELSE IF ~probeConnected THEN frozenImageData
  ELSE IF ~isRunning /\ frozenImageData # <<>> THEN frozenImageData
  ELSE <<Frame(phase)>>

\* ------------------------------------------------------------------------
\*  Frame callback
\* ------------------------------------------------------------------------
\* squared distance of two points
DistSq(a, b) ==
  (a[1] - b[1]) * (a[1] - b[1]) + (a[2] - b[2]) * (a[2] - b[2])
    + (a[3] - b[3]) * (a[3] - b[3])

\* mutant of NearCH1: the distance is taken in oscGroup-local space, without
\* the group's scale
NearCH1_Unscaled(pos) ==
  DistSq(pos, CH1_BODY_POS) * 100 < (SNAP_RADIUS \div 10) * (SNAP_RADIUS \div 10)

\* probeWorld.distanceTo(ch1World) < 0.072: both are children of oscGroup,
\* so the world distance is OSC_SCALE times the local one
NearCH1(pos) ==
  DistSq(pos, CH1_BODY_POS) * OSC_SCALE * OSC_SCALE < SNAP_RADIUS * SNAP_RADIUS

\* the drag target of one frame: the mouse ray's hit on the drag plane in
\* oscGroup-local coordinates, clamped to the front face
DragPos(drag) ==
  <<Clamp(drag.x, -(BW \div 2) + 20, (BW \div 2) - 20),
    Clamp(drag.y, -(BH \div 2) + 20, (BH \div 2) - 20),
    (BD \div 2) + 22>>

\* mutant of HoverStep: the line toastTimer = 1.0 is missing, the tooltip
\* keeps showToast's lifetime
HoverStep_LongTimer(st, intr) ==
  IF intr # NoHit /\ intr # st.hov
  THEN [hov   |-> intr,
        text  |-> Msg(IF intr.label # "" THEN intr.label ELSE intr.ctrlType, 0),
        vis   |-> TRUE,
        timer |-> TOAST_TIME]
  ELSE IF intr = NoHit THEN [st EXCEPT !.hov = NoHit]
  ELSE st

\* one controller's pass of the XR hover loop over
\* st = [hov, text, vis, timer] (hoveredCtrl and the toast)
HoverStep(st, intr) ==
  IF intr # NoHit /\ intr # st.hov
  THEN [hov   |-> intr,
        text  |-> Msg(IF intr.label # "" THEN intr.label ELSE intr.ctrlType, 0),
        vis   |-> TRUE,
        timer |-> HOVER_TOAST_TIME]
  ELSE IF intr = NoHit THEN [st EXCEPT !.hov = NoHit]
  ELSE st

\* mutant of Scrolling: the isRunning test is missing, the waveform scrolls
\* while stopped
Scrolling_WhileStopped == power /\ probeConnected

\* animate: the condition under which the waveform scrolls
Scrolling == power /\ isRunning /\ probeConnected

\* mutant of Dragging: the probe follows the mouse whether or not it is
\* in the hand
Dragging_WithoutGrab == ~isPresenting /\ ~probeConnected

\* animate: the frame takes the desktop branch that drags the probe
Dragging == ~isPresenting /\ probeGrabbed /\ ~probeConnected

\* animate: the toast after the countdown of a frame of dt seconds
ToastCountdown(dt) ==
  LET timer1 == IF toastTimer > 0 THEN toastTimer - dt ELSE toastTimer
  IN [text  |-> toastText,
      vis   |-> IF toastTimer > 0 /\ timer1 <= 0 THEN FALSE ELSE toastVisible,
      timer |-> timer1]

\* animate(): dt is clock.getDelta(), h1 and h2 what the two controllers'
\* rays hit, drag the mouse ray's hit on the probe drag plane
Animate(dt, h1, h2, drag) ==
  LET phase1 == IF Scrolling
                THEN wavePhase + dt * PHASE_RATE
                ELSE wavePhase
      cd     == ToastCountdown(dt)
      st0    == [hov |-> hoveredCtrl, text |-> cd.text,
                 vis |-> cd.vis, timer |-> cd.timer]
      st2    == IF isPresenting THEN HoverStep(HoverStep(st0, h1), h2) ELSE st0
      dragging == Dragging
      pos1   == IF dragging /\ drag.hit THEN DragPos(drag) ELSE probePos
  IN
  /\ wavePhase' = phase1
  /\ frozenImageData' = DrawScreen(phase1)
  /\ hoveredCtrl' = st2.hov
  /\ IF dragging /\ NearCH1(pos1)
     THEN SnapProbeToCH1
     ELSE /\ probePos' = pos1
          /\ toastText' = st2.text
          /\ toastVisible' = st2.vis
          /\ toastTimer' = st2.timer
          /\ UNCHANGED <<probeGrabbed, probeConnected, currentStep>>
  /\ UNCHANGED <<power, waveform, timebaseIdx, vdivIdx, triggerIdx,
                 isRunning, isPresenting>>

\* ------------------------------------------------------------------------
\*  Input events
\* ------------------------------------------------------------------------
\* mutant of OnClick: a click on empty space with the probe in hand plugs it
\* in instead of dropping it
OnClick_EmptyClickSnaps(intr) ==
  /\ ~isPresenting
  /\ IF intr # NoHit
     THEN HandleControl(intr.ctrlType, intr)
     ELSE IF probeGrabbed
     THEN /\ SnapProbeToCH1
          /\ UNCHANGED <<power, waveform, timebaseIdx, vdivIdx, triggerIdx,
                         isRunning, frozenImageData, hoveredCtrl, wavePhase,
                         isPresenting>>
     ELSE UNCHANGED progVars

\* mutant of OnClick: a click on empty space takes the probe out of the hand
\* and leaves it where it was dragged to
OnClick_DropInPlace(intr) ==
  /\ ~isPresenting
  /\ IF intr # NoHit
     THEN HandleControl(intr.ctrlType, intr)
     ELSE IF probeGrabbed
     THEN /\ probeGrabbed' = FALSE
          /\ ShowToast(Msg("Probe released", 0))
          /\ UNCHANGED <<oscVars, probePos, frozenImageData, hoveredCtrl,
                         wavePhase, isPresenting>>
     ELSE UNCHANGED progVars

\* window "click" listener; intr is the result of fireRayOnMeshes
OnClick(intr) ==
  /\ ~isPresenting
  /\ IF intr # NoHit
     THEN HandleControl(intr.ctrlType, intr)
     ELSE IF probeGrabbed
     THEN /\ probeGrabbed' = FALSE
          /\ probePos' = PROBE_REST
          /\ ShowToast(Msg("Probe released", 0))
          /\ UNCHANGED <<oscVars, frozenImageData, hoveredCtrl, wavePhase,
                         isPresenting>>
     ELSE UNCHANGED progVars

\* onXRSelect(ctrl); intr is the result of fireRayOnMeshes
OnXRSelect(intr) ==
  /\ isPresenting
  /\ IF intr # NoHit
     THEN HandleControl(intr.ctrlType, intr)
     ELSE UNCHANGED progVars

\* the XR session starts / ends (VRButton): renderer.xr.isPresenting flips
SessionChange ==
  /\ isPresenting' = ~isPresenting
  /\ UNCHANGED <<oscVars, probeVars, toastVars, frozenImageData,
                 hoveredCtrl, wavePhase>>

\* ------------------------------------------------------------------------
\*  History variables (observers of the run; no code writes them)
\* ------------------------------------------------------------------------
\* the tutorial's operations in the order the steps ask for them; "ch1"
\* stands for a connection of the probe to CH1
OpOrder == <<"power", "ch1", "wave", "timebase", "vdiv", "trigger", "runstop">>

\* the operation a step performed on the instrument: a probe connection,
\* or the activation of a control other than the port and the probe
Operated(ctrlType) ==
  IF ~probeConnected /\ probeConnected' THEN "ch1"
  ELSE IF ctrlType \in {"ch1", "probe_body"} THEN ""
  ELSE ctrlType

\* opProgress = length of the longest prefix of OpOrder that the operations
\* performed so far contain, in order
ObserveOps(ctrlType) ==
  opProgress' = IF opProgress < Len(OpOrder)
                     /\ Operated(ctrlType) = OpOrder[opProgress + 1]
                THEN opProgress + 1
                ELSE opProgress

\* lastOp = the last operation performed: the ctrlType of the last control
\* activated, "drop" for a click on empty space that released the probe,
\* "autosnap" for a frame that connected the probe (other frames, clicks
\* without effect and session changes leave it)
ObserveLast(ctrlType, isFrame) ==
  lastOp' = IF isFrame
            THEN (IF ~probeConnected /\ probeConnected' THEN "autosnap" ELSE lastOp)
            ELSE IF ctrlType = ""
            THEN (IF probeGrabbed' # probeGrabbed THEN "drop" ELSE lastOp)
            ELSE ctrlType

\* scen follows the scenario "Power, CH1 with the probe at rest, grab the
\* probe, desktop frame with the probe dragged next to the port": scen = k
\* when exactly its first k operations have been performed since the start
\* (other frames and session changes in between do not count), and ScenOff
\* once any other operation happened.  near: the frame is a desktop frame
\* that finds the dragged probe within the snap radius of the port
ScenSteps == <<"power", "ch1", "probe_body", "autosnap">>
ScenOff   == Len(ScenSteps) + 1

ScenarioStep(ctrlType, isFrame, near) ==
  scen' = IF scen = ScenOff THEN ScenOff
          ELSE IF isFrame
          THEN (IF near THEN (IF scen = 3 THEN 4 ELSE ScenOff) ELSE scen)
          ELSE IF ctrlType = ""
          THEN (IF probeGrabbed' # probeGrabbed THEN ScenOff ELSE scen)
          ELSE IF scen = 0 /\ ctrlType = "power" THEN 1
          ELSE IF scen = 1 /\ ctrlType = "ch1" /\ ~probeGrabbed THEN 2
          ELSE IF scen = 2 /\ ctrlType = "probe_body" THEN 3
          ELSE ScenOff

\* the scenario's "within the proximity radius": 0.072 world units are
\* 0.072 / 0.72 = 0.1 local units
WithinSnapRadius(pos) == DistSq(pos, CH1_BODY_POS) < 100 * 100

\* the rotary controls, their index and the length of their table
Rotary == {"timebase", "vdiv", "trigger"}
IdxOf(k) ==
  CASE k = "timebase" -> timebaseIdx
    [] k = "vdiv"     -> vdivIdx
    [] k = "trigger"  -> triggerIdx
TableLen(k) ==
  CASE k = "timebase" -> Len(TIMEBASE_VALUES)
    [] k = "vdiv"     -> Len(VDIV_VALUES)
    [] k = "trigger"  -> Len(TRIGGER_VALUES)

\* turns follows the current run of activations of one rotary control: its
\* kind, the index the run started from and the number n of activations in
\* it.  A run ends with the activation of any other control and after
\* TableLen(kind) activations (the next one starts a new run); frames and
\* events that resolve to no control do not interrupt it
NoTurns == [kind |-> "", start |-> 0, n |-> 0]

ObserveTurns(ctrlType) ==
  turns' = IF ctrlType \in Rotary
           THEN (IF turns.kind = ctrlType /\ turns.n < TableLen(ctrlType)
                 THEN [turns EXCEPT !.n = @ + 1]
                 ELSE [kind |-> ctrlType, start |-> IdxOf(ctrlType), n |-> 1])
           ELSE IF ctrlType = "" THEN turns
           ELSE NoTurns

\* freeze follows the scenario "with power on and the probe connected,
\* RunStop to stop, RunStop to run, RunStop to stop again, with no other
\* control activated and no frame while running in between":
\*   stage 1  stopped for the first time; shown is the frame the first
\*            frame callback after the stop displayed (<<>> before it)
\*   stage 2  running again, no frame yet
\*   stage 3  stopped for the second time, no frame yet
\*   stage 4  second holds the frame the first frame callback after the
\*            second stop displayed
\* and stage 0 otherwise
NoFreeze == [stage |-> 0, shown |-> <<>>, second |-> <<>>]

ObserveFreeze(ctrlType, isFrame) ==
  freeze' =
    IF isFrame
    THEN (CASE freeze.stage = 1 /\ freeze.shown = <<>> /\ power /\ probeConnected
                 -> [freeze EXCEPT !.shown = frozenImageData']
            [] freeze.stage = 2 -> NoFreeze
            [] freeze.stage = 3 /\ power /\ probeConnected
                 -> [freeze EXCEPT !.stage = 4, !.second = frozenImageData']
            [] OTHER -> freeze)
    ELSE IF ctrlType = "" THEN freeze
    ELSE IF ctrlType # "runstop" THEN NoFreeze
    ELSE (CASE freeze.stage = 0 /\ isRunning /\ power /\ probeConnected
                 -> [stage |-> 1, shown |-> <<>>, second |-> <<>>]
            [] freeze.stage = 1 /\ freeze.shown # <<>>
                 -> [freeze EXCEPT !.stage = 2]
            [] freeze.stage = 2 -> [freeze EXCEPT !.stage = 3]
            [] OTHER -> NoFreeze)

\* idle follows the time without user action: t is the frame time
\* accumulated (up to TOAST_TIME) since the last input event (click or XR
\* select, on a control or not) and since the controllers' rays last moved;
\* h1 and h2 are what the two rays hit in the last frame of an XR session
NoIdle == [t |-> 0, h1 |-> NoHit, h2 |-> NoHit]

ObserveIdleEvent == idle' = [idle EXCEPT !.t = 0]

ObserveIdleFrame(dt, h1, h2) ==
  idle' = IF isPresenting /\ (h1 # idle.h1 \/ h2 # idle.h2)
          THEN [t |-> 0, h1 |-> h1, h2 |-> h2]
          ELSE [idle EXCEPT !.t = IF @ + dt > TOAST_TIME THEN TOAST_TIME
                                   ELSE @ + dt]

\* toggle follows the current run of activations of the probe control with
\* the probe unplugged: their number n (at most 2: a third one starts a new
\* run) and the probe's grabbed flag and position when the run started.
\* Every other event (ctrlType is the kind it activated, "" for none) and
\* every frame end the run
NoToggle == [n |-> 0, grabbed |-> FALSE, pos |-> PROBE_REST]

ObserveToggle(ctrlType) ==
  toggle' = IF ctrlType = "probe_body" /\ ~probeConnected
            THEN (IF toggle.n = 1
                  THEN [toggle EXCEPT !.n = 2]
                  ELSE [n |-> 1, grabbed |-> probeGrabbed, pos |-> probePos])
            ELSE NoToggle

\* the histories of obsVars over a frame, in a specification that keeps
\* the history obs
ObserveFrame(obs, dt, h1, h2) ==
  CASE obs = "freeze" -> ObserveFreeze("", TRUE) /\ UNCHANGED <<turns, idle, toggle>>
    [] obs = "idle"   -> ObserveIdleFrame(dt, h1, h2) /\ UNCHANGED <<turns, freeze, toggle>>
    [] obs = "toggle" -> ObserveToggle("") /\ UNCHANGED <<turns, freeze, idle>>
    [] OTHER          -> UNCHANGED obsVars

Observe(ctrlType, isFrame, near) ==
  /\ ObserveOps(ctrlType)
  /\ ObserveLast(ctrlType, isFrame)
  /\ ScenarioStep(ctrlType, isFrame, near)

\* ------------------------------------------------------------------------
\*  Inputs
\* ------------------------------------------------------------------------
DtValues == 1 .. MaxDt

\* what a hovering XR controller's ray is offered to hit
HoverHits == {NoHit} \cup {i \in Interactives : i.ctrlType \in {"power", "ch1"}}

\* the mouse ray's hit on the drag plane, in local coordinates: none (ray
\* parallel to / pointing away from the plane), on the port, inside the snap
\* radius near its edge, just outside it, and off the front face (clamped to
\* its corner)
DragHits == {
  [hit |-> FALSE, x |-> 0,    y |-> 0],
  [hit |-> TRUE,  x |-> -160, y |-> -130],
  [hit |-> TRUE,  x |-> -80,  y |-> -130],
  [hit |-> TRUE,  x |-> -100, y |-> -50],
  [hit |-> TRUE,  x |-> 400,  y |-> 300] }

\* the bound on the rotary knobs
KnobBudget(intr) ==
  intr.ctrlType \in {"timebase", "vdiv", "trigger"}
    => (timebaseIdx - DEFAULT_IDX) + (vdivIdx - DEFAULT_IDX)
         + (triggerIdx - DEFAULT_IDX) < MaxTurns

\* ------------------------------------------------------------------------
\*  Specification
\* ------------------------------------------------------------------------
Init ==
  /\ power = FALSE
  /\ probeConnected = FALSE
  /\ waveform = "sine"
  /\ timebaseIdx = DEFAULT_IDX
  /\ vdivIdx = DEFAULT_IDX
  /\ triggerIdx = DEFAULT_IDX
  /\ isRunning = TRUE
  /\ currentStep = 0
  /\ probeGrabbed = FALSE
  /\ probePos = PROBE_REST
  /\ frozenImageData = <<>>
  /\ toastText = Msg("", 0)
  /\ toastVisible = FALSE
  /\ toastTimer = 0
  /\ hoveredCtrl = NoHit
  /\ wavePhase = 0
  /\ isPresenting = FALSE
  /\ opProgress = 0
  /\ lastOp = ""
  /\ scen = 0
  /\ turns = NoTurns
  /\ freeze = NoFreeze
  /\ idle = NoIdle
  /\ toggle = NoToggle

\* a desktop click whose ray hits one of hits
ClickOn(hits) ==
  \E intr \in hits :
    /\ KnobBudget(intr)
    /\ OnClick(intr)
    /\ Observe(intr.ctrlType, FALSE, FALSE)
    /\ UNCHANGED obsVars

\* an XR select whose ray hits one of hits
XRSelectOn(hits) ==
  \E intr \in hits :
    /\ KnobBudget(intr)
    /\ OnXRSelect(intr)
    /\ Observe(intr.ctrlType, FALSE, FALSE)
    /\ UNCHANGED obsVars

\* a frame; the controllers' rays are read only in an XR session and the
\* drag plane only while the probe is dragged on the desktop.  A frame that
\* would carry wavePhase past cap is not offered; obs names the histories
\* of obsVars the specification keeps
TickObs(hovers, drags, cap, obs) ==
  \E dt \in DtValues :
    /\ Scrolling => wavePhase + dt * PHASE_RATE <= cap
    /\ \E h1 \in (IF isPresenting THEN hovers ELSE {NoHit}),
          h2 \in (IF isPresenting THEN hovers ELSE {NoHit}),
          drag \in (IF Dragging THEN drags ELSE {CHOOSE d \in drags : TRUE}) :
         /\ Animate(dt, h1, h2, drag)
         /\ Observe("", TRUE,
                    /\ Dragging
                    /\ drag.hit
                    /\ WithinSnapRadius(DragPos(drag)))
         /\ ObserveFrame(obs, dt, h1, h2)

TickWith(hovers, drags) == TickObs(hovers, drags, MaxPhase, "none")

\* Spec: a desktop session (no XR session is ever started); every control
\* of the registry and empty space can be clicked, frames run in between
Click == ClickOn(RayHits)
Tick  == TickWith({NoHit}, DragHits)

Next == Click \/ Tick

Spec == Init /\ [][Next]_vars

\* SpecProbe: desktop and XR sessions alternate; the user works the probe,
\* the CH1 port, the power button and the wave buttons (tutorial steps 0..3),
\* clicks empty space, and hovers the controllers over controls
ProbeHits ==
  {NoHit} \cup {i \in Interactives :
                  i.ctrlType \in {"power", "ch1", "probe_body", "wave"}}

ClickProbe    == ClickOn(ProbeHits)
XRSelectProbe == XRSelectOn(ProbeHits)
TickProbe     == TickWith(HoverHits, DragHits)
Session ==
  /\ SessionChange
  /\ UNCHANGED <<histVars, obsVars>>

NextProbe == ClickProbe \/ XRSelectProbe \/ TickProbe \/ Session

SpecProbe == Init /\ [][NextProbe]_vars

\* SpecGrab: SpecProbe's events with the waveform buttons left out and no
\* hovering in XR, keeping the history toggle
GrabHits == {h \in ProbeHits : h = NoHit \/ h.ctrlType # "wave"}

ClickGrab ==
  \E intr \in GrabHits :
    /\ OnClick(intr)
    /\ Observe(intr.ctrlType, FALSE, FALSE)
    /\ ObserveToggle(intr.ctrlType)
    /\ UNCHANGED <<turns, freeze, idle>>

XRSelectGrab ==
  \E intr \in GrabHits :
    /\ OnXRSelect(intr)
    /\ Observe(intr.ctrlType, FALSE, FALSE)
    /\ ObserveToggle(intr.ctrlType)
    /\ UNCHANGED <<turns, freeze, idle>>

TickGrab == TickObs({NoHit}, DragHits, MaxPhase, "toggle")

NextGrab == ClickGrab \/ XRSelectGrab \/ TickGrab \/ Session

SpecGrab == Init /\ [][NextGrab]_vars

\* SpecPanel: a desktop session in which every control of the registry and
\* empty space can be clicked and the grabbed probe is carried straight onto
\* the CH1 port (the next frame snaps it in)
OnPortDrags == {d \in DragHits : d.hit /\ DragPos(d)[1] = CH1_BODY_POS[1]}

ClickPanel == ClickOn(RayHits)
TickPanel  == TickWith({NoHit}, OnPortDrags)

NextPanel == ClickPanel \/ TickPanel

SpecPanel == Init /\ [][NextPanel]_vars

\* SpecFreeze: a desktop session around the frozen display: the user works
\* the power button, the probe and the port, RUN/STOP, AUTO, the timebase
\* knob and the square-wave button; the waveform may scroll for FreezeFrames
\* frames of the shortest delta
FreezeFrames == 2

FreezeHits ==
  {NoHit} \cup {i \in Interactives :
                  \/ i.ctrlType \in {"power", "probe_body", "ch1", "runstop",
                                     "auto", "timebase"}
                  \/ i.label = "WAVE:square"}

ClickFreeze ==
  \E intr \in FreezeHits :
    /\ KnobBudget(intr)
    /\ OnClick(intr)
    /\ Observe(intr.ctrlType, FALSE, FALSE)
    /\ ObserveFreeze(intr.ctrlType, FALSE)
    /\ UNCHANGED <<turns, idle, toggle>>

TickFreeze ==
  TickObs({NoHit}, OnPortDrags, MaxPhase + FreezeFrames * PHASE_RATE, "freeze")

NextFreeze == ClickFreeze \/ TickFreeze

SpecFreeze == Init /\ [][NextFreeze]_vars

\* SpecToast: desktop and XR sessions alternate; the user presses the power
\* button and the CH1 port and points the two XR controllers at them, at
\* other controls or at nothing
ToastHits ==
  {NoHit} \cup {i \in Interactives : i.ctrlType \in {"power", "ch1"}}

ClickToast ==
  \E intr \in ToastHits :
    /\ OnClick(intr)
    /\ Observe(intr.ctrlType, FALSE, FALSE)
    /\ ObserveIdleEvent
    /\ UNCHANGED <<turns, freeze, toggle>>

XRSelectToast ==
  \E intr \in ToastHits :
    /\ OnXRSelect(intr)
    /\ Observe(intr.ctrlType, FALSE, FALSE)
    /\ ObserveIdleEvent
    /\ UNCHANGED <<turns, freeze, toggle>>

TickToast == TickObs(HoverHits, DragHits, MaxPhase, "idle")

NextToast == ClickToast \/ XRSelectToast \/ TickToast \/ Session

SpecToast == Init /\ [][NextToast]_vars

\* SpecKnobs: desktop and XR sessions alternate; the user turns the three
\* rotary knobs without limit and presses AUTO, frames run in between
KnobHits ==
  {NoHit} \cup {i \in Interactives : i.ctrlType \in Rotary \cup {"auto"}}

ClickKnobs ==
  \E intr \in KnobHits :
    /\ OnClick(intr)
    /\ Observe(intr.ctrlType, FALSE, FALSE)
    /\ ObserveTurns(intr.ctrlType)
    /\ UNCHANGED <<freeze, idle, toggle>>

XRSelectKnobs ==
  \E intr \in KnobHits :
    /\ OnXRSelect(intr)
    /\ Observe(intr.ctrlType, FALSE, FALSE)
    /\ ObserveTurns(intr.ctrlType)
    /\ UNCHANGED <<freeze, idle, toggle>>

TickKnobs == TickWith({NoHit}, DragHits)

NextKnobs == ClickKnobs \/ XRSelectKnobs \/ TickKnobs \/ Session

SpecKnobs == Init /\ [][NextKnobs]_vars

\* SpecDir: handleControl is called directly for a rotary control, with a
\* direction in extra.dir (no control of the registry carries one)
DirValues == -MaxDir .. MaxDir

DirExtra(k, dir) == [ctrlType |-> k, label |-> "", dir |-> dir]

CallWithDir ==
  \E k \in Rotary, dir \in DirValues :
    /\ HandleControl(k, DirExtra(k, dir))
    /\ Observe(k, FALSE, FALSE)
    /\ UNCHANGED obsVars

SpecDir == Init /\ [][CallWithDir]_vars

\* ========================================================================
\*  Properties
\* ========================================================================
\* every ctrlType of the registry, and the empty kind of the terminal step
CtrlKinds == {i.ctrlType : i \in Interactives} \cup {""}

\* a step that is an activation of a control of kind k, by a desktop click
\* or by an XR select
Activates(k) ==
  \E intr \in Interactives :
    /\ intr.ctrlType = k
    /\ (OnClick(intr) \/ OnXRSelect(intr))

GrabFirstMsg    == Msg("Grab the probe first, then insert into CH1", 0)
ConnectedMsg    == Msg("Probe connected - CH1", 0)
DisconnectedMsg == Msg("Probe disconnected", 0)

\* C1 - Tutorial monotonicity: over every sequence of control activations,
\* clicks on empty space and frames, currentStep never decreases and always
\* stays within 0 .. STEPS.length - 1 = 7.
C1_TutorialMonotonic ==
  /\ currentStep \in 0 .. 7
  /\ [][currentStep' >= currentStep /\ currentStep' \in 0 .. 7]_vars

C1_Witness == currentStep = 7 /\ lastOp = "runstop" /\ ~isRunning

\* C2 - advanceStep(kind) increments currentStep by exactly one if and only
\* if STEPS[currentStep].highlight equals kind and currentStep < 7, and
\* leaves it unchanged in every other case; no step of the program raises
\* currentStep by more than one.
C2_AdvanceRule ==
  /\ [](\A k \in CtrlKinds :
          AdvanceStep(k) =
            IF STEPS[currentStep + 1].highlight = k /\ currentStep < 7
            THEN currentStep + 1
            ELSE currentStep)
  /\ [][currentStep' <= currentStep + 1]_vars

C2_Witness == currentStep = 4 /\ lastOp = "timebase"

\* C3 - Tutorial gating: when currentStep = k, the operations Power, CH1
\* connection, Wave, Timebase, V/div, Trigger, Run/Stop of indices 0 .. k-1
\* have each been performed, in that order (opProgress is the length of the
\* longest prefix of that list performed so far, in order).
C3_TutorialGating == currentStep <= opProgress

C3_Witness == currentStep = 7 /\ opProgress = 7

\* C4 - Probe invariant: probeGrabbed and probeConnected are never both
\* true, under every interleaving of probe and port activations, clicks on
\* empty space and frames (auto-snap included).
C4_ProbeNotGrabbedAndConnected == ~(probeGrabbed /\ probeConnected)

C4_Witness == lastOp = "autosnap" /\ probeConnected /\ ~probeGrabbed

\* C5 - Probe position invariant: a connected probe is at the CH1 snap
\* position, a probe neither grabbed nor connected is at PROBE_REST, and the
\* position differs from both only while the probe is grabbed.
C5_ProbePosition ==
  /\ probeConnected => probePos = CH1_SNAP_POS
  /\ (~probeGrabbed /\ ~probeConnected) => probePos = PROBE_REST
  /\ probePos \notin {CH1_SNAP_POS, PROBE_REST} => probeGrabbed

C5_Witness ==
  probeGrabbed /\ probePos \notin {CH1_SNAP_POS, PROBE_REST}

\* C6 - Activating the CH1 port while the probe is resting (neither grabbed
\* nor connected) changes no instrument, probe or tutorial state and only
\* shows the "grab the probe first" toast.
C6_Ch1AtRestNoOp ==
  [][(~probeGrabbed /\ ~probeConnected /\ Activates("ch1"))
       => /\ UNCHANGED <<oscVars, probeVars, frozenImageData, wavePhase,
                         hoveredCtrl>>
          /\ toastText' = GrabFirstMsg
          /\ toastVisible']_vars

C6_Witness ==
  /\ lastOp = "ch1" /\ toastText = GrabFirstMsg
  /\ ~probeGrabbed /\ ~probeConnected /\ probePos = PROBE_REST

\* C7 - At tutorial step 1 with the probe resting, activating the CH1 port
\* plugs the probe in: probeConnected becomes true and the tutorial advances
\* to step 2.
C7_Ch1PlugsAtStep1 ==
  [][(currentStep = 1 /\ ~probeGrabbed /\ ~probeConnected /\ Activates("ch1"))
       => (probeConnected' /\ currentStep' = 2)]_vars

\* C8 - Explicit snap: activating the CH1 port while the probe is grabbed
\* connects it: probeConnected = true, probeGrabbed = false, the connection
\* toast is shown, and the tutorial is advanced with kind ch1 (currentStep
\* increments iff it was 1).
C8_ExplicitSnap ==
  [][(probeGrabbed /\ ~probeConnected /\ Activates("ch1"))
       => /\ probeConnected' /\ ~probeGrabbed'
          /\ toastText' = ConnectedMsg /\ toastVisible'
          /\ currentStep' = IF currentStep = 1 THEN 2 ELSE currentStep]_vars

C8_Witness ==
  lastOp = "ch1" /\ probeConnected /\ ~probeGrabbed /\ currentStep = 2

\* C9 - Unplug: from Connected, activating the probe or the CH1 port goes
\* directly to Resting (not connected, not grabbed, at PROBE_REST) without
\* passing through Grabbed, shows the disconnection toast and leaves
\* currentStep unchanged.
C9_Unplug ==
  [][(probeConnected /\ (Activates("probe_body") \/ Activates("ch1")))
       => /\ ~probeGrabbed
          /\ ~probeConnected' /\ ~probeGrabbed' /\ probePos' = PROBE_REST
          /\ toastText' = DisconnectedMsg /\ toastVisible'
          /\ currentStep' = currentStep]_vars

C9_Witness ==
  /\ lastOp = "probe_body" /\ toastText = DisconnectedMsg
  /\ ~probeConnected /\ ~probeGrabbed /\ probePos = PROBE_REST

\* C10 - Scenario with proximity auto-snap: from the initial state, Power
\* gives power = true and step 1; CH1 with the probe not grabbed leaves the
\* state unchanged, step still 1; then grabbing the probe, followed by a
\* desktop frame in which the dragged probe lies within the snap radius of
\* the port, gives probeConnected = true, probeGrabbed = false and step 2.
C10_Scenario ==
  /\ scen = 0 => (~power /\ ~probeConnected /\ currentStep = 0)
  /\ scen \in {1, 2}
       => /\ power /\ currentStep = 1
          /\ ~probeConnected /\ ~probeGrabbed /\ probePos = PROBE_REST
          /\ waveform = "sine" /\ isRunning
          /\ timebaseIdx = DEFAULT_IDX /\ vdivIdx = DEFAULT_IDX
          /\ triggerIdx = DEFAULT_IDX
  /\ scen = 3 => (power /\ currentStep = 1 /\ probeGrabbed /\ ~probeConnected)
  /\ scen = 4 => (power /\ probeConnected /\ ~probeGrabbed /\ currentStep = 2)

C10_Witness == scen = 4 /\ lastOp = "autosnap"

\* a step that is one call of animate
FrameStep ==
  \E dt \in DtValues, h1 \in HoverHits, h2 \in HoverHits, drag \in DragHits :
    Animate(dt, h1, h2, drag)

\* a step that is an input event resolving to no control
NoControlEvent == OnClick(NoHit) \/ OnXRSelect(NoHit)

\* a step that is an input event resolving to a control: one call of
\* handleControl
DispatchStep == \E k \in CtrlKinds \ {""} : Activates(k)

\* what the proximity auto-snap of a desktop frame does to the instrument
\* state: the grabbed probe becomes connected, the tutorial is advanced with
\* kind ch1
AutoSnapEffect ==
  /\ ~isPresenting /\ probeGrabbed /\ ~probeConnected
  /\ probeConnected' /\ ~probeGrabbed'
  /\ currentStep' = IF currentStep = 1 THEN 2 ELSE currentStep
  /\ UNCHANGED <<power, waveform, timebaseIdx, vdivIdx, triggerIdx, isRunning>>

\* C11 (as stated) - Instrument state is mutated only inside handleControl:
\* a frame and an input event that resolves to no control each leave power,
\* probeConnected, waveform, the three indices, isRunning and currentStep
\* unchanged, and currentStep only increases during a handleControl call.
C11_OnlyDispatcherMutates ==
  /\ [][(FrameStep \/ NoControlEvent) => UNCHANGED oscVars]_vars
  /\ [][currentStep' > currentStep => DispatchStep]_vars

\* C11 (amended) - Instrument state is mutated only inside handleControl or
\* by the proximity auto-snap of a desktop frame, which connects the grabbed
\* probe and advances the tutorial with kind ch1; every other frame and every
\* input event that resolves to no control leave it unchanged.
C11_DispatcherOrAutoSnap ==
  /\ [][FrameStep => (UNCHANGED oscVars \/ AutoSnapEffect)]_vars
  /\ [][NoControlEvent => UNCHANGED oscVars]_vars
  /\ [][oscVars' # oscVars => (DispatchStep \/ (FrameStep /\ AutoSnapEffect))]_vars

C11_Witness ==
  lastOp = "autosnap" /\ probeConnected /\ currentStep = 2 /\ opProgress = 2

\* C12 - Index range invariant: in every state reachable through the input
\* handlers timebaseIdx is in 0..7, vdivIdx in 0..5 and triggerIdx in 0..6,
\* and each timebase / vdiv / trigger activation changes its index, wrapping
\* from the last index to 0 instead of sticking at the end.
C12_IndexRange ==
  /\ timebaseIdx \in 0 .. 7 /\ vdivIdx \in 0 .. 5 /\ triggerIdx \in 0 .. 6
  /\ [][timebaseIdx' \in 0 .. 7 /\ vdivIdx' \in 0 .. 5
          /\ triggerIdx' \in 0 .. 6]_vars
  /\ [][Activates("timebase")
          => /\ timebaseIdx' # timebaseIdx
             /\ timebaseIdx = 7 => timebaseIdx' = 0]_vars
  /\ [][Activates("vdiv")
          => /\ vdivIdx' # vdivIdx
             /\ vdivIdx = 5 => vdivIdx' = 0]_vars
  /\ [][Activates("trigger")
          => /\ triggerIdx' # triggerIdx
             /\ triggerIdx = 6 => triggerIdx' = 0]_vars

C12_Witness ==
  timebaseIdx = 0 /\ lastOp = "timebase" /\ vdivIdx = 0 /\ triggerIdx = 0

\* C14 - Idempotent wrap: from every valid starting index, applying the
\* timebase (resp. vdiv, trigger) control with the default direction exactly
\* tableLength times (8, 6, 7) returns the index to its starting value, and
\* no smaller positive number of applications does: during a run of n
\* activations of one knob, the index equals the run's starting index
\* exactly when n is the table length.
C14_IdempotentWrap ==
  \A k \in Rotary :
    turns.kind = k
      => /\ turns.n \in 1 .. TableLen(k)
         /\ (IdxOf(k) = turns.start) <=> (turns.n = TableLen(k))

C14_Witness ==
  /\ turns.kind = "trigger" /\ turns.n = 7
  /\ turns.start = 5 /\ triggerIdx = 5

\* C13 - For every integer direction passed as extra.dir to handleControl
\* for timebase, vdiv or trigger (positive or negative, of any magnitude)
\* and every in-range starting index, the resulting index equals
\* (index + dir) modulo the table length and lies within [0, table.length).
C13_DirWraps ==
  [][\A k \in Rotary, dir \in DirValues :
       (IdxOf(k) \in 0 .. TableLen(k) - 1 /\ HandleControl(k, DirExtra(k, dir)))
         => /\ IdxOf(k)' = (IdxOf(k) + dir) % TableLen(k)
            /\ IdxOf(k)' \in 0 .. TableLen(k) - 1]_vars

\* C15 - Auto, applied in any reachable state, sets timebaseIdx = vdivIdx =
\* triggerIdx = 3, sets isRunning = true and discards the frozen frame, and
\* leaves currentStep, power, the probe state and the waveform unchanged (it
\* never advances the tutorial, whatever the current step).
C15_Auto ==
  [][Activates("auto")
       => /\ timebaseIdx' = 3 /\ vdivIdx' = 3 /\ triggerIdx' = 3
          /\ isRunning'
          /\ frozenImageData' = <<>>
          /\ UNCHANGED <<currentStep, power, probeConnected, probeVars,
                         waveform>>]_vars

C15_Witness ==
  /\ lastOp = "auto" /\ currentStep = 7 /\ power /\ probeConnected
  /\ isRunning /\ frozenImageData = <<>>

\* a step that is one call of animate outside an XR session
DesktopFrame ==
  \E dt \in DtValues, drag \in DragHits : Animate(dt, NoHit, NoHit, drag)

\* C16 - RunStop toggles isRunning; on stopped -> running the frozen frame
\* is discarded, so that the next frame drawn (power on, probe connected) is
\* freshly computed from the current phase and settings; on running ->
\* stopped the frozen frame is kept; in both directions the tutorial is
\* advanced with kind runstop (currentStep increments iff it was 6).
C16_RunStop ==
  /\ [][Activates("runstop")
          => /\ isRunning' = ~isRunning
             /\ isRunning' => frozenImageData' = <<>>
             /\ ~isRunning' => frozenImageData' = frozenImageData
             /\ currentStep' = IF currentStep = 6 THEN 7 ELSE currentStep]_vars
  /\ [][(power /\ probeConnected /\ frozenImageData = <<>> /\ DesktopFrame)
          => frozenImageData' = <<Frame(wavePhase')>>]_vars

C16_Witness ==
  /\ lastOp = "runstop" /\ isRunning /\ frozenImageData = <<>>
  /\ power /\ probeConnected /\ currentStep = 7

\* C17 - Freeze display: whenever a frame is drawn with power on, the probe
\* connected and isRunning = false, a previously captured frame exists and
\* the display is that frame redisplayed verbatim (nothing is recomputed, no
\* new frame is captured); the combination "stopped, powered, connected, no
\* captured frame" is never reached.
C17_FreezeDisplay ==
  /\ [][(power /\ probeConnected /\ ~isRunning /\ DesktopFrame)
          => /\ frozenImageData # <<>>
             /\ frozenImageData' = frozenImageData]_vars
  /\ [][~(power' /\ probeConnected' /\ ~isRunning'
            /\ frozenImageData' = <<>>)]_vars

\* C18 - Phase accumulation: a frame with elapsed time dt increases
\* wavePhase by dt * 4 if power, probeConnected and isRunning are all true
\* and leaves it unchanged otherwise; no control activation or other event
\* changes or resets wavePhase, so it never decreases.
C18_PhaseAccumulation ==
  /\ [][\A dt \in DtValues, drag \in DragHits :
          Animate(dt, NoHit, NoHit, drag)
            => wavePhase' = IF power /\ probeConnected /\ isRunning
                            THEN wavePhase + dt * 4
                            ELSE wavePhase]_vars
  /\ [][wavePhase' # wavePhase
          => /\ power /\ probeConnected /\ isRunning
             /\ DesktopFrame /\ ~DispatchStep
             /\ \E dt \in DtValues : wavePhase' = wavePhase + dt * 4]_vars
  /\ [][wavePhase' >= wavePhase]_vars

C18_Witness ==
  wavePhase > PHASE_RATE /\ ~isRunning /\ lastOp = "runstop"
    /\ power /\ probeConnected

\* C19 - Freeze fidelity: with power on and the probe connected,
\* if RunStop is applied to stop, then to run, then to stop again with no
\* parameter change and no frame while running in between, the frame
\* displayed after the second stop has the same phase and settings as the
\* frame displayed after the first stop, however many frames elapsed while
\* stopped.
C19_FreezeFidelity ==
  freeze.stage = 4 => freeze.second = freeze.shown

\* C20 - Feedback expiry: every control activation handled by handleControl
\* makes the toast visible with the fixed lifetime of 2.0 s; if no further
\* control is activated, then once the frames have accumulated that lifetime
\* the toast is hidden: a toast never stays visible while frames keep
\* running and no new action occurs (idle.t is the frame time accumulated
\* since the last input event and the last movement of a controller's ray).
C20_FeedbackExpiry ==
  /\ [][DispatchStep => (toastVisible' /\ toastTimer' = 2)]_vars
  /\ [][idle'.t >= 2 => ~toastVisible']_vars

\* the toast is what the countdown of a frame of dt seconds leaves
ToastCountedDown(dt) ==
  /\ toastText' = ToastCountdown(dt).text
  /\ toastVisible' = ToastCountdown(dt).vis
  /\ toastTimer' = ToastCountdown(dt).timer

\* the toast is the hover tooltip of the control intr
ToastIsTooltip(intr) ==
  /\ intr # NoHit
  /\ toastText' = Msg(intr.label, 0)
  /\ toastVisible'
  /\ toastTimer' = HOVER_TOAST_TIME

\* the frame resolves a hover: an XR frame (controller hover) or a desktop
\* frame that does not drag the probe (mouse hover, which writes only the
\* cursor style and the highlight ring)
HoverResolved == isPresenting \/ ~(probeGrabbed /\ ~probeConnected)

\* what the controllers can point at in such a frame (a desktop frame reads
\* no controller) and the one drag-plane hit it is given (it reads none)
HoverPointed == IF isPresenting THEN HoverHits ELSE {NoHit}
HoverNoDrag == CHOOSE d \in DragHits : ~d.hit

\* C21 (as stated) - The per-frame hover query (desktop mouse hover and XR
\* controller hover inside animate) mutates no state: instrument state,
\* probe state, tutorial step and the feedback message and timer are after
\* the hover resolution what they were before it (the toast is what the
\* frame's countdown left), whatever control the pointer rests on.
C21_HoverMutatesNothing ==
  [][HoverResolved =>
       \A dt \in DtValues, h1 \in HoverPointed, h2 \in HoverPointed :
         Animate(dt, h1, h2, HoverNoDrag)
         => /\ UNCHANGED <<oscVars, probeVars>>
            /\ ToastCountedDown(dt)]_vars

\* C21 (amended) - The per-frame hover leaves instrument state, probe state
\* and tutorial step unchanged; the desktop mouse hover also leaves the
\* feedback message and timer unchanged, while the XR controller hover
\* either leaves them unchanged or replaces the message by the label of a
\* control a controller points at, visible, with a timer of 1.0 s.
C21_HoverOnlyTooltip ==
  [][HoverResolved =>
       \A dt \in DtValues, h1 \in HoverPointed, h2 \in HoverPointed :
         Animate(dt, h1, h2, HoverNoDrag)
         => /\ UNCHANGED <<oscVars, probeVars>>
            /\ \/ ToastCountedDown(dt)
               \/ isPresenting /\ (ToastIsTooltip(h1) \/ ToastIsTooltip(h2))]_vars

C21_Witness ==
  /\ isPresenting /\ hoveredCtrl # NoHit
  /\ toastVisible /\ toastText = Msg("CH1 INPUT", 0)
  /\ toastTimer = HOVER_TOAST_TIME /\ lastOp = "power"

\* C22 - A desktop click that resolves to no control is ignored (no
\* instrument, probe or tutorial state change, no feedback) unless the probe
\* is grabbed, in which case it drops the probe: probeGrabbed = false,
\* position = PROBE_REST, probeConnected and currentStep (and the rest of
\* the instrument state) unchanged.
C22_EmptyClick ==
  [][OnClick(NoHit) =>
       IF probeGrabbed
       THEN /\ ~probeGrabbed'
            /\ probePos' = PROBE_REST
            /\ UNCHANGED oscVars
       ELSE UNCHANGED <<oscVars, probeVars, toastVars>>]_vars

C22_Witness ==
  /\ lastOp = "drop"
  /\ ~probeGrabbed /\ ~probeConnected /\ probePos = PROBE_REST
  /\ toastText = Msg("Probe released", 0) /\ toastVisible
  /\ power /\ currentStep = 1

\* C23 - Rotary controls are not gated on power: activating timebase, vdiv
\* or trigger while power = false still changes the corresponding index
\* (cyclically to the next one), and still advances the tutorial when the
\* kind matches the current step (and only then), exactly as when
\* power = true; the power itself is left as it was.
C23_RotaryUngated ==
  [][\A k \in Rotary :
       Activates(k)
         => /\ IdxOf(k)' = (IdxOf(k) + 1) % TableLen(k)
            /\ IdxOf(k)' # IdxOf(k)
            /\ currentStep' = IF STEPS[currentStep + 1].highlight = k
                              THEN currentStep + 1 ELSE currentStep
            /\ power' = power]_vars

C23_Witness ==
  /\ ~power /\ lastOp = "timebase"
  /\ timebaseIdx = DEFAULT_IDX + 1
  /\ STEPS[currentStep + 1].highlight = "vdiv"
  /\ toastText = TimebaseMsg(timebaseIdx)

\* a step of the probe control with the probe unplugged flips probeGrabbed,
\* resets the position on the way to Resting and leaves probeConnected and
\* currentStep alone
ToggleStep ==
  (~probeConnected /\ Activates("probe_body"))
    => /\ probeGrabbed' = ~probeGrabbed
       /\ probePos' = IF probeGrabbed THEN PROBE_REST ELSE probePos
       /\ UNCHANGED <<probeConnected, currentStep>>

\* C24 (as stated) - Grab/drop toggle: while the probe is not connected,
\* activating the probe control flips probeGrabbed (Resting -> Grabbed,
\* Grabbed -> Resting with position reset to PROBE_REST), so two consecutive
\* probe activations with no frame tick in between restore the probe state
\* (grabbed, connected, position); neither activation changes
\* probeConnected or currentStep.
C24_ToggleRestores ==
  /\ [][ToggleStep]_vars
  /\ [][toggle'.n = 2
          => /\ probeGrabbed' = toggle'.grabbed
             /\ ~probeConnected'
             /\ probePos' = toggle'.pos]_vars

\* C24 (amended) - As stated, except that the two activations restore
\* probeGrabbed and, from Resting, the position; a probe that starts in the
\* hand is back in the hand at PROBE_REST, wherever it had been dragged to.
C24_GrabToggle ==
  /\ [][ToggleStep]_vars
  /\ [][toggle'.n = 2
          => /\ probeGrabbed' = toggle'.grabbed
             /\ ~probeConnected'
             /\ probePos' = IF toggle'.grabbed THEN PROBE_REST ELSE toggle'.pos
             /\ toggle'.grabbed \/ toggle'.pos = PROBE_REST]_vars

C24_Witness ==
  /\ toggle.n = 2 /\ toggle.grabbed /\ toggle.pos # PROBE_REST
  /\ probeGrabbed /\ probePos = PROBE_REST /\ ~probeConnected
  /\ lastOp = "probe_body"

\* C25 - The Connected state is only ever entered from Grabbed: any step in
\* which probeConnected goes from false to true starts in a state with
\* probeGrabbed = true (never directly from Resting), whether the step is
\* a ch1 activation or a frame-tick auto-snap.
C25_ConnectedFromGrabbed ==
  [][(~probeConnected /\ probeConnected') => probeGrabbed]_vars

C25_Witness ==
  /\ probeConnected /\ ~probeGrabbed /\ probePos = CH1_SNAP_POS
  /\ lastOp = "ch1" /\ isPresenting
  /\ toastText = ConnectedMsg

\* the controls that keep the captured frame
KeepFrozenKinds == {"power", "probe_body", "ch1", "wave"} \cup Rotary

\* C26 - The captured (frozen) frame is discarded only by a RunStop
\* transition to running or by Auto; Power toggles, probe unplug / grab /
\* connect, Wave and rotary changes leave it untouched, so as long as the
\* instrument stays stopped no step (control, empty click or frame, with
\* the power off or on, the probe unplugged or connected, whatever the
\* waveform and the indices) changes a captured frame, and a frame drawn
\* with power and probe then shows (keeps in frozenImageData) that very
\* frame.
C26_FrozenKept ==
  /\ [][(frozenImageData # <<>> /\ frozenImageData' = <<>>)
          => \/ Activates("runstop") /\ isRunning'
             \/ Activates("auto")]_vars
  /\ [][\A k \in KeepFrozenKinds :
          Activates(k) => frozenImageData' = frozenImageData]_vars
  /\ [][(~isRunning /\ ~isRunning' /\ frozenImageData # <<>>)
          => frozenImageData' = frozenImageData]_vars

C26_Witness ==
  /\ ~isRunning /\ power /\ probeConnected
  /\ frozenImageData # <<>>
  /\ frozenImageData[1].waveform # waveform
  /\ frozenImageData[1].timebase # TIMEBASE_VALUES[timebaseIdx + 1]
  /\ lastOp = "ch1" /\ toastText = ConnectedMsg /\ toastTimer < TOAST_TIME

====
